---- MODULE Spec2Model ----
(***************************************************************************)
(* Model of src/app.py (Aurora QA System v2): the message cache, the       *)
(* paginated fetch of the corpus, and the pure retrieval pipeline          *)
(* (extract_user_names, filter_messages_by_user,                           *)
(* create_context_from_messages, the head of answer_question_with_llm).    *)
(*                                                                         *)
(* Python values are encoded as follows.                                   *)
(*   Optional[T]   a sequence of length 0 (None) or 1 (<<v>>)              *)
(*   str           a sequence of one-character strings                     *)
(*   list          a sequence                                              *)
(*   dict (msg)    a record [user_name, message, timestamp]                *)
(* In the fetch model a message is an opaque integer id: the fetch code    *)
(* never looks inside an item.                                             *)
(***************************************************************************)
EXTENDS Integers, Sequences, FiniteSets, TLC

VARIABLES
    now,              \* datetime.now(), in whole seconds
    cacheMessages,    \* message_cache.messages      (Optional[list])
    cacheLastUpdated, \* message_cache.last_updated  (Optional[int])
    srcCorpus,        \* what the message source really holds
    pc,               \* per call: "idle" | "waiting" | "closing" | "failing" | "done" | "failed"
    messages,         \* per call: local accumulator of fetch_all_messages
    skip,             \* per call: local cursor of fetch_all_messages
    result,           \* per call: returned value (Optional[list]); None while running / on error
    reqs,             \* per call: the skip of every page request it issued, in order
    honest,           \* per call: every response so far was the true page with the true total
    firstTotal,       \* per call: total reported by the first page
    hit,              \* per call: the call was answered from the cache
    raced,            \* per call: it missed the cache while another call that missed was in flight
    lastSet,          \* argument and time of the most recent MessageCache.set (Optional)
    setCount,         \* number of direct MessageCache.set calls so far
    getResult,        \* the most recent direct MessageCache.get: its result and when it ran
    op,               \* pipeline: which function was applied ("init" before)
    inCorpus,         \* pipeline input: messages
    inQuestion,       \* pipeline input: question
    inNames,          \* pipeline input: user_names
    inMax,            \* pipeline input: max_messages
    outNames,         \* pipeline: extract_user_names result
    outList,          \* pipeline: list result (filtered list / working set)
    outContext        \* pipeline: create_context_from_messages result

fetchVars == <<srcCorpus, pc, messages, skip, result, reqs, honest, firstTotal, hit, raced>>
cacheVars == <<cacheMessages, cacheLastUpdated, lastSet>>
directVars == <<setCount, getResult>>
pipeVars  == <<op, inCorpus, inQuestion, inNames, inMax, outNames, outList, outContext>>
vars == <<now, cacheVars, fetchVars, directVars, pipeVars>>

----------------------------------------------------------------------------
(* Bounds of the model *)

MaxPages == 3      \* page requests one call may issue in the model
MaxNow   == 300    \* the clock stops here

\* Two concurrent requests (/ask and /stats both call fetch_all_messages)
Calls == {1, 2}

(* Program constants *)
cache_duration_seconds == 300
limit == 1000

None == <<>>
Some(v) == <<v>>

Min(a, b) == IF a < b THEN a ELSE b

----------------------------------------------------------------------------
(* MessageCache *)

\* is_valid with the age compared by <= : an entry exactly TTL old is still served
is_valid_inclusive(msgs, updated, t) ==
    IF msgs = None \/ updated = None
    THEN FALSE
    ELSE (t - updated[1]) <= cache_duration_seconds

\* MessageCache.is_valid
is_valid(msgs, updated, t) ==
    IF msgs = None \/ updated = None
    THEN FALSE
    ELSE (t - updated[1]) < cache_duration_seconds

\* get without the validity test: a stale entry is served
CacheGetIgnoringAge(msgs, updated, t) == msgs

\* MessageCache.get
CacheGet(msgs, updated, t) ==
    IF is_valid(msgs, updated, t) THEN msgs ELSE None

\* set that keeps an entry already present: the first writer wins
SetMessagesKeepFirst(old, new) == IF old = None THEN Some(new) ELSE old

\* MessageCache.set: the new value of the field messages
SetMessages(old, new) == Some(new)

\* MessageCache.set: the new value of the field last_updated
SetLastUpdated(old, t) == Some(t)

----------------------------------------------------------------------------
(* The message source *)

\* The sizes of corpus the source may hold
SourceSizes == {0, 1, limit, limit + 1}

Corpus(n) == [i \in 1..n |-> i]

\* Python slice s[a : a + n]
Slice(s, a, n) == SubSeq(s, a + 1, Min(a + n, Len(s)))

\* A well-behaved source: the page asked for and the true total
HonestResponse(corpus, sk, lim) ==
    [items |-> Slice(corpus, sk, lim), total |-> Len(corpus)]

\* A misbehaving source: an empty page, and a short page with a total that
\* stays ahead of what was delivered
ArbResponses(delivered) ==
    { [items |-> <<>>, total |-> delivered + 1],
      [items |-> <<0>>, total |-> delivered + 2] }

Responses(c) ==
    {HonestResponse(srcCorpus, skip[c], limit)} \cup ArbResponses(Len(messages[c]))

\* The call is suspended at an await: on a page request, or on the close of
\* the client at the exit of  async with  (after a break, or with the
\* HTTPException on its way out)
InFlight(c) == pc[c] \in {"waiting", "closing", "failing"}

----------------------------------------------------------------------------
(* fetch_all_messages *)

\* if not items: break ... if len(messages) >= data.get("total", 0): break
LoopStops(items, accumulated, total) ==
    items = <<>> \/ accumulated >= total

\* The cursor advanced by one less than the page size: pages overlap
NextSkipOverlapping(sk, lim) == sk + lim - 1

\* skip += limit
NextSkip(sk, lim) == sk + lim

\* Entry of fetch_all_messages up to the first await: the cache lookup and,
\* on a miss, the first page request.
Start(c) ==
    /\ pc[c] \in {"idle", "done", "failed"}
    /\ LET cached == CacheGet(cacheMessages, cacheLastUpdated, now) IN
        IF cached # None
        THEN /\ pc' = [pc EXCEPT ![c] = "done"]
             /\ result' = [result EXCEPT ![c] = cached]
             /\ reqs' = [reqs EXCEPT ![c] = <<>>]
             /\ hit' = [hit EXCEPT ![c] = TRUE]
             /\ raced' = [raced EXCEPT ![c] = FALSE]
        ELSE /\ pc' = [pc EXCEPT ![c] = "waiting"]
             /\ result' = [result EXCEPT ![c] = None]
             /\ reqs' = [reqs EXCEPT ![c] = <<0>>]
             /\ hit' = [hit EXCEPT ![c] = FALSE]
             /\ raced' = [d \in Calls |->
                            IF d = c THEN \E e \in Calls \ {c} : InFlight(e)
                            ELSE raced[d] \/ InFlight(d)]
    /\ messages' = [messages EXCEPT ![c] = <<>>]
    /\ skip' = [skip EXCEPT ![c] = 0]
    /\ honest' = [honest EXCEPT ![c] = TRUE]
    /\ firstTotal' = [firstTotal EXCEPT ![c] = 0]
    /\ UNCHANGED <<now, cacheVars, srcCorpus, directVars, pipeVars>>

\* One iteration of the while loop, resumed by the response to the page
\* request in flight.
Respond(c, r) ==
    /\ pc[c] = "waiting"
    /\ LET acc == messages[c] \o r.items
           stop == LoopStops(r.items, Len(acc), r.total)
       IN
        /\ stop \/ Len(reqs[c]) < MaxPages
        /\ messages' = [messages EXCEPT ![c] = acc]
        /\ IF stop
           THEN /\ pc' = [pc EXCEPT ![c] = "closing"]
                /\ UNCHANGED <<skip, reqs>>
           ELSE /\ skip' = [skip EXCEPT ![c] = NextSkip(skip[c], limit)]
                /\ reqs' = [reqs EXCEPT ![c] = Append(reqs[c], NextSkip(skip[c], limit))]
                /\ UNCHANGED pc
    /\ honest' = [honest EXCEPT ![c] =
                    honest[c] /\ r = HonestResponse(srcCorpus, skip[c], limit)]
    /\ firstTotal' = [firstTotal EXCEPT ![c] =
                    IF Len(reqs[c]) = 1 THEN r.total ELSE firstTotal[c]]
    /\ UNCHANGED <<now, cacheVars, srcCorpus, result, hit, raced, directVars, pipeVars>>

\* A failure handler that stores what was accumulated so far before it raises
FailStoringPartial(c) ==
    /\ pc[c] = "waiting"
    /\ pc' = [pc EXCEPT ![c] = "failing"]
    /\ cacheMessages' = Some(messages[c])
    /\ cacheLastUpdated' = Some(now)
    /\ UNCHANGED <<now, lastSet, srcCorpus, messages, skip, result, reqs, honest,
                   firstTotal, hit, raced, directVars, pipeVars>>

\* The page request in flight raises httpx.HTTPError (connection error,
\* timeout, or raise_for_status on a non-2xx answer): the handler raises
\* HTTPException(500) inside  async with , whose exit awaits the close of the
\* client; the call stays suspended there with nothing raised to its caller.
Fail(c) ==
    /\ pc[c] = "waiting"
    /\ pc' = [pc EXCEPT ![c] = "failing"]
    /\ UNCHANGED <<now, cacheVars, srcCorpus, messages, skip, result, reqs, honest,
                   firstTotal, hit, raced, directVars, pipeVars>>

\* The client is closed and the HTTPException leaves fetch_all_messages: the
\* call ends without a corpus and without message_cache.set.
Raise(c) ==
    /\ pc[c] = "failing"
    /\ pc' = [pc EXCEPT ![c] = "failed"]
    /\ result' = [result EXCEPT ![c] = None]
    /\ messages' = [messages EXCEPT ![c] = <<>>]
    /\ UNCHANGED <<now, cacheVars, srcCorpus, skip, reqs, honest, firstTotal,
                   hit, raced, directVars, pipeVars>>

\* After the loop: the client is closed, message_cache.set(messages), return.
Finish(c) ==
    /\ pc[c] = "closing"
    /\ cacheMessages' = SetMessages(cacheMessages, messages[c])
    /\ cacheLastUpdated' = SetLastUpdated(cacheLastUpdated, now)
    /\ lastSet' = Some([corpus |-> messages[c], time |-> now])
    /\ result' = [result EXCEPT ![c] = Some(messages[c])]
    /\ pc' = [pc EXCEPT ![c] = "done"]
    /\ UNCHANGED <<now, srcCorpus, messages, skip, reqs, honest, firstTotal, hit,
                   raced, directVars, pipeVars>>

\* Time passes.
TickSteps == {299, 300}

Tick(d) ==
    /\ now + d <= MaxNow
    /\ now' = now + d
    /\ UNCHANGED <<cacheVars, fetchVars, directVars, pipeVars>>

DirectIdle ==
    /\ setCount = 0
    /\ getResult = [called |-> FALSE, value |-> None, at |-> 0, seen |-> None]

PipeIdle ==
    /\ op = "off"
    /\ inCorpus = <<>>
    /\ inQuestion = <<>>
    /\ inNames = <<>>
    /\ inMax = 0
    /\ outNames = <<>>
    /\ outList = <<>>
    /\ outContext = <<>>

\* No fetch_all_messages call has been made; the source holds corpus
FetchInit(corpus) ==
    /\ srcCorpus = corpus
    /\ pc = [c \in Calls |-> "idle"]
    /\ messages = [c \in Calls |-> <<>>]
    /\ skip = [c \in Calls |-> 0]
    /\ result = [c \in Calls |-> None]
    /\ reqs = [c \in Calls |-> <<>>]
    /\ honest = [c \in Calls |-> TRUE]
    /\ firstTotal = [c \in Calls |-> 0]
    /\ hit = [c \in Calls |-> FALSE]
    /\ raced = [c \in Calls |-> FALSE]

FetchIdle == FetchInit(<<>>)

\* MessageCache.__init__
CacheEmpty ==
    /\ cacheMessages = None
    /\ cacheLastUpdated = None
    /\ lastSet = None

\* The service after start-up: empty cache, no request in progress, and a
\* source holding some corpus.
Init ==
    /\ now = 0
    /\ CacheEmpty
    /\ DirectIdle
    /\ PipeIdle
    /\ \E n \in SourceSizes : FetchInit(Corpus(n))

Next ==
    \/ \E c \in Calls : Start(c)
    \/ \E c \in Calls : \E r \in Responses(c) : Respond(c, r)
    \/ \E c \in Calls : Fail(c)
    \/ \E c \in Calls : Raise(c)
    \/ \E c \in Calls : Finish(c)
    \/ \E d \in TickSteps : Tick(d)

Spec == Init /\ [][Next]_vars

----------------------------------------------------------------------------
(* MessageCache driven directly: any sequence of set, get and clock steps *)

MaxSets == 3       \* direct MessageCache.set calls in one behaviour

CacheCorpora == {<<>>, <<1>>, <<2, 3>>}

\* message_cache.set(corpus)
CacheSetOp(corpus) ==
    /\ setCount < MaxSets
    /\ cacheMessages' = SetMessages(cacheMessages, corpus)
    /\ cacheLastUpdated' = SetLastUpdated(cacheLastUpdated, now)
    /\ lastSet' = Some([corpus |-> corpus, time |-> now])
    /\ setCount' = setCount + 1
    /\ UNCHANGED <<now, fetchVars, getResult, pipeVars>>

\* message_cache.get()
CacheGetOp ==
    /\ getResult' = [called |-> TRUE,
                     value |-> CacheGet(cacheMessages, cacheLastUpdated, now),
                     at |-> now,
                     seen |-> lastSet]
    /\ UNCHANGED <<now, cacheVars, fetchVars, setCount, pipeVars>>

InitCache ==
    /\ now = 0
    /\ CacheEmpty
    /\ DirectIdle
    /\ PipeIdle
    /\ FetchIdle

NextCache ==
    \/ \E corpus \in CacheCorpora : CacheSetOp(corpus)
    \/ CacheGetOp
    \/ \E d \in TickSteps : Tick(d)

SpecCache == InitCache /\ [][NextCache]_vars

----------------------------------------------------------------------------
(* Strings: a str is a sequence of characters, one string per character.    *)
(* An ASCII character is written as itself, any other as U+ and its code     *)
(* point in four hexadecimal digits.                                         *)

UpperLetters == <<"A", "B", "C", "D", "E", "F", "G", "H", "I", "J", "K", "L", "M", "N", "O", "P", "Q", "R", "S", "T", "U", "V", "W", "X", "Y", "Z">>
LowerLetters == <<"a", "b", "c", "d", "e", "f", "g", "h", "i", "j", "k", "l", "m", "n", "o", "p", "q", "r", "s", "t", "u", "v", "w", "x", "y", "z">>

\* The characters of the model in code-point order (what str comparison uses)
CodeOrder ==
    <<"\n", " ", "'", "-", "0", "1", "2", "3", "4", "5", "6", "7", "8", "9", ":", "=", "?">> \o UpperLetters \o <<"[", "]">> \o LowerLetters
    \o <<"U+00C0", "U+00C9", "U+00DC", "U+00E0", "U+00E9", "U+00FC", "U+0130">> \o <<"U+0307">> \o <<"U+03A3", "U+03C2", "U+03C3">>

\* The place of a character in that order; no value outside the alphabet
Ord(ch) == CHOOSE i \in 1..Len(CodeOrder) : CodeOrder[i] = ch

\* The lowercase mapping of one character out of context, as str.lower()
\* applies it: a string, since U+0130 becomes two characters
LowerChar(ch) ==
    IF \E i \in 1..26 : UpperLetters[i] = ch
    THEN <<LowerLetters[CHOOSE i \in 1..26 : UpperLetters[i] = ch]>>
    ELSE CASE ch = "U+00C0" -> <<"U+00E0">>
           [] ch = "U+00C9" -> <<"U+00E9">>
           [] ch = "U+00DC" -> <<"U+00FC">>
           [] ch = "U+0130" -> <<"i", "U+0307">>
           [] ch = "U+03A3" -> <<"U+03C3">>
           [] OTHER -> <<CodeOrder[Ord(ch)]>>

\* The characters with a case
Cased(ch) ==
    \/ \E i \in 1..26 : UpperLetters[i] = ch \/ LowerLetters[i] = ch
    \/ ch \in {"U+00C0", "U+00C9", "U+00DC", "U+00E0", "U+00E9", "U+00FC",
               "U+0130", "U+03A3", "U+03C2", "U+03C3"}

\* The characters str.lower() skips when it looks for the end of a word
CaseIgnorable(ch) == ch \in {"'", ":", "U+0307"}

\* The capital sigma at position i ends a word: a cased character stands
\* before it and none after it, case-ignorable characters skipped
FinalSigma(s, i) ==
    LET before == {j \in 1..(i - 1) : ~CaseIgnorable(s[j])}
        after == {j \in (i + 1)..Len(s) : ~CaseIgnorable(s[j])}
    IN /\ before # {}
       /\ Cased(s[CHOOSE j \in before : \A k \in before : k <= j])
       /\ after # {} => ~Cased(s[CHOOSE j \in after : \A k \in after : j <= k])

\* What str.lower() puts in the place of the character at position i
LowerAt(s, i) ==
    IF s[i] = "U+03A3" /\ FinalSigma(s, i) THEN <<"U+03C2">> ELSE LowerChar(s[i])

RECURSIVE LowerFrom(_, _)
LowerFrom(s, i) ==
    IF i > Len(s) THEN <<>> ELSE LowerAt(s, i) \o LowerFrom(s, i + 1)

\* str.lower()
lower(s) == LowerFrom(s, 1)

\* Python's  a in b  on strings
Contains(a, b) ==
    \E i \in 0..(Len(b) - Len(a)) : SubSeq(b, i + 1, i + Len(a)) = a

\* Python's  a < b  on strings
RECURSIVE StrLess(_, _)
StrLess(a, b) ==
    IF a = <<>> THEN b # <<>>
    ELSE IF b = <<>> THEN FALSE
    ELSE IF a[1] # b[1] THEN Ord(a[1]) < Ord(b[1])
    ELSE StrLess(Tail(a), Tail(b))

\* Python slice s[:n]
Prefix(s, n) == SubSeq(s, 1, Min(n, Len(s)))

\* sep.join(parts)
RECURSIVE JoinRange(_, _, _, _)
JoinRange(sep, parts, lo, hi) ==
    IF lo > hi THEN <<>>
    ELSE IF lo = hi THEN parts[lo]
    ELSE LET mid == (lo + hi) \div 2 IN
         JoinRange(sep, parts, lo, mid) \o sep \o JoinRange(sep, parts, mid + 1, hi)

Join(sep, parts) == JoinRange(sep, parts, 1, Len(parts))

----------------------------------------------------------------------------
(* extract_user_names *)

known_users == <<
    <<"L", "a", "y", "l", "a">>, <<"V", "i", "k", "r", "a", "m">>, <<"A", "m", "i", "r", "a">>, <<"S", "o", "p", "h", "i", "a">>, <<"F", "a", "t", "i", "m", "a">>,
    <<"A", "r", "m", "a", "n", "d">>, <<"H", "a", "n", "s">>, <<"L", "o", "r", "e", "n", "z", "o">>, <<"L", "i", "l", "y">>, <<"T", "h", "i", "a", "g", "o">>, <<"A", "m", "i", "n", "a">> >>

extract_user_names(question) ==
    LET question_lower == lower(question) IN
    SelectSeq(known_users, LAMBDA name : Contains(lower(name), question_lower))

----------------------------------------------------------------------------
(* filter_messages_by_user *)

\* The match without lowering the stored user name
NameMatchesStoredCase(msg_user, user_names) ==
    \E i \in 1..Len(user_names) : Contains(lower(user_names[i]), msg_user)

\* The inner loop over user_names: some query name is inside the user name
NameMatches(msg_user, user_names) ==
    \E i \in 1..Len(user_names) : Contains(lower(user_names[i]), lower(msg_user))

filter_messages_by_user(msgs, user_names) ==
    IF user_names = <<>>
    THEN msgs
    ELSE SelectSeq(msgs, LAMBDA msg : NameMatches(msg.user_name, user_names))

----------------------------------------------------------------------------
(* create_context_from_messages *)

max_messages_default == 500
full_dataset_threshold == 200
per_user_limit == 50

\* f"[{timestamp[:10]}] {message_text}"
FormatLine(msg) ==
    <<"[">> \o Prefix(msg.timestamp, 10) \o <<"]", " ">> \o msg.message

\* f"\n=== {user_name} ==="
FormatHeader(user_name) ==
    <<"\n", "=", "=", "=", " ">> \o user_name \o <<" ", "=", "=", "=">>

\* user_messages[user_name]: the formatted messages of one user, in input order
UserLines(msgs, user_name) ==
    LET own == SelectSeq(msgs, LAMBDA m : m.user_name = user_name) IN
    [i \in 1..Len(own) |-> FormatLine(own[i])]

\* sorted(user_messages.items()): the keys in ascending order
RECURSIVE SortNames(_)
SortNames(S) ==
    IF S = {} THEN <<>>
    ELSE LET least == CHOOSE u \in S : \A v \in S \ {u} : StrLess(u, v) IN
         <<least>> \o SortNames(S \ {least})

SortedUsers(msgs) == SortNames({msgs[i].user_name : i \in 1..Len(msgs)})

\* The threshold compared by <= : a corpus of exactly 200 is shown in full
MsgsToIncludeInclusive(lines, corpusLen) ==
    IF corpusLen <= full_dataset_threshold THEN lines ELSE Prefix(lines, per_user_limit)

\* msgs if len(messages) < 200 else msgs[:50]
MsgsToInclude(lines, corpusLen) ==
    IF corpusLen < full_dataset_threshold THEN lines ELSE Prefix(lines, per_user_limit)

\* The inner for loop appends a line, counts it, and only then tests
\* total_messages >= max_messages: it runs until the list is exhausted or the
\* test succeeds, so the first line of a non-empty list is always appended.
\* This is the number of iterations it makes.
EmitCount(len, total, max_messages) ==
    IF len = 0 THEN 0
    ELSE IF total + 1 >= max_messages THEN 1
    ELSE Min(len, max_messages - total)

EmitLines(lines, parts, total, max_messages) ==
    LET n == EmitCount(Len(lines), total, max_messages) IN
    [parts |-> parts \o SubSeq(lines, 1, n), total |-> total + n]

\* The outer for loop over the sorted users
RECURSIVE EmitUsers(_, _, _, _, _, _)
EmitUsers(msgs, users, k, parts, total, max_messages) ==
    IF k > Len(users) THEN parts
    ELSE LET withHeader == Append(parts, FormatHeader(users[k]))
             include == MsgsToInclude(UserLines(msgs, users[k]), Len(msgs))
             after == EmitLines(include, withHeader, total, max_messages)
         IN IF after.total >= max_messages
            THEN after.parts
            ELSE EmitUsers(msgs, users, k + 1, after.parts, after.total, max_messages)

\* context_parts at the end of the loops
context_parts(msgs, max_messages) ==
    EmitUsers(msgs, SortedUsers(msgs), 1, <<>>, 0, max_messages)

create_context_from_messages(msgs, max_messages) ==
    Join(<<"\n">>, context_parts(msgs, max_messages))

----------------------------------------------------------------------------
(* answer_question_with_llm, up to the context it builds *)

\* No fallback: an empty filter result replaces the corpus
WorkingSetNoFallback(question, msgs) ==
    LET user_names == extract_user_names(question) IN
    IF user_names # <<>>
    THEN filter_messages_by_user(msgs, user_names)
    ELSE msgs

\* The list handed to create_context_from_messages
WorkingSet(question, msgs) ==
    LET user_names == extract_user_names(question) IN
    IF user_names # <<>>
    THEN LET filtered_messages == filter_messages_by_user(msgs, user_names) IN
         IF filtered_messages # <<>> THEN filtered_messages ELSE msgs
    ELSE msgs

----------------------------------------------------------------------------
(* Inputs of the pipeline *)

Digit(d) == <<"0", "1", "2", "3", "4", "5", "6", "7", "8", "9">>[d + 1]

\* str(n) for 0 <= n <= 999
Decimal(n) ==
    IF n < 10 THEN <<Digit(n)>>
    ELSE IF n < 100 THEN <<Digit(n \div 10), Digit(n % 10)>>
    ELSE <<Digit(n \div 100), Digit((n \div 10) % 10), Digit(n % 10)>>

\* The k-th message of a test corpus, sent by user u
Msg(u, k) ==
    [user_name |-> u,
     message   |-> <<"m">> \o Decimal(k),
     timestamp |-> <<"2", "0", "2", "4", "-", "0", "1", "-">> \o <<Digit(k % 3), Digit(1 + (k % 9))>> \o <<"T", "1", "0", ":", "0", "0", ":", "0", "0">>]

uLayla  == <<"L", "a", "y", "l", "a", " ", "H", "a", "s", "s", "a", "n">>
uVikram == <<"V", "i", "k", "r", "a", "m", " ", "D", "e", "s", "a", "i">>
uArmand == <<"A", "r", "m", "a", "n", "d", " ", "D", "u", "p", "o", "n", "t">>
uHans   == <<"h", "a", "n", "s", " ", "M", "u", "e", "l", "l", "e", "r">>
uZed    == <<"Z", "e", "d">>
uMuller == <<"H", "A", "N", "S", " ", "M", "U+00DC", "L", "L", "E", "R">>
uIpek   == <<"U+0130", "p", "e", "k", " ", "U+03A3">>
uSigma  == <<"H", "A", "N", "S", "U+03A3">>

\* A corpus of ca messages of user a and cb messages of user b, delivered
\* alternately (b first) until one user runs out, then the rest of the other.
Alternate(a, ca, b, cb) ==
    LET both == 2 * Min(ca, cb)
        rest == IF ca > cb THEN a ELSE b
    IN [k \in 1..(ca + cb) |->
            Msg(IF k > both THEN rest ELSE IF k % 2 = 1 THEN b ELSE a, k)]

\* Gives every message of a list a text of its own
Renumber(msgs) ==
    [k \in 1..Len(msgs) |-> [msgs[k] EXCEPT !.message = msgs[k].message \o <<"x">> \o Decimal(k)]]

\* A message with a short timestamp and an empty text
OddMsg == [user_name |-> <<"L", "A", "Y", "L", "A">>, message |-> <<>>, timestamp |-> <<"2", "0", "2", "4">>]

SmallCorpora ==
    { <<>>,
      Alternate(uLayla, 1, uZed, 0),
      Alternate(uLayla, 2, uVikram, 2) \o Alternate(uArmand, 2, uZed, 0),
      Renumber(Alternate(uArmand, 3, uZed, 1) \o Alternate(uHans, 1, uLayla, 2)
               \o Alternate(uVikram, 2, uArmand, 1)),
      Alternate(uZed, 3, uHans, 2),
      Renumber(Alternate(uZed, 1, uVikram, 1) \o <<OddMsg>> \o Alternate(uLayla, 1, uZed, 0)),
      Renumber(Alternate(uMuller, 2, uIpek, 1) \o Alternate(uSigma, 1, uHans, 1)) }

\* Corpora on both sides of the 200-message threshold, with users on both
\* sides of the 50-message limit
LargeCorpora ==
    { Alternate(uLayla, full_dataset_threshold - 1, uZed, 0),
      Alternate(uLayla, full_dataset_threshold, uZed, 0),
      Alternate(uLayla, full_dataset_threshold - per_user_limit - 2, uVikram, per_user_limit + 1),
      Alternate(uLayla, full_dataset_threshold - per_user_limit - 1, uVikram, per_user_limit + 1),
      Renumber(Alternate(uZed, 1, uArmand, 100)
               \o Alternate(uVikram, per_user_limit, uLayla, per_user_limit - 1)) }

MaxLinesInputs == {0, 1, 2, 3, per_user_limit + 10, max_messages_default}

Questions ==
    { <<>>,
      <<"L", "A", "Y", "L", "A", " ", "a", "n", "d", " ", "v", "i", "k", "r", "a", "m">>,
      <<"W", "h", "a", "t", " ", "c", "i", "t", "i", "e", "s", " ", "h", "a", "s", " ", "A", "r", "m", "a", "n", "d", " ", "D", "u", "p", "o", "n", "t", " ", "t", "r", "a", "v", "e", "l", "e", "d", " ", "t", "o", "?">>,
      <<"W", "h", "a", "t", " ", "i", "s", " ", "S", "o", "p", "h", "i", "a", "'", "s", " ", "p", "h", "o", "n", "e", " ", "n", "u", "m", "b", "e", "r", "?">>,
      <<"W", "h", "o", " ", "s", "a", "n", "g", " ", "t", "h", "e", " ", "c", "h", "a", "n", "s", "o", "n", "s", "?">>,
      <<"H", "o", "w", " ", "i", "s", " ", "Z", "e", "d", "?">>,
      <<"U+0130", "s", " ", "H", "A", "N", "S", " ", "M", "U+00DC", "L", "L", "E", "R", " ", "a", "t", " ", "t", "h", "e", " ", "U+00C9", "C", "O", "L", "E", "?">> }

NameLists ==
    { <<>>,
      <<<<"L", "a", "y", "l", "a">>>>,
      <<<<"L", "A", "Y", "L", "A">>, <<"l", "a">>>>,
      <<<<"S", "o", "p", "h", "i", "a">>>>,
      <<<<"H", "a", "n", "s">>, <<"V", "i", "k", "r", "a", "m">>>>,
      <<<<>>>>,
      <<<<"m", "U+00FC", "l", "l", "e", "r">>>>,
      <<<<"U+0130", "P", "E", "K">>>>,
      <<<<"i", "p", "e", "k">>, <<"U+03A3">>>>,
      <<<<"h", "a", "n", "s", "U+03C3">>>> }

\* The argument tuples the pipeline functions are applied to
PipeInputs ==
    [corpus : SmallCorpora \cup LargeCorpora, max : MaxLinesInputs,
     question : {<<>>}, names : {<<>>}]
    \cup
    [corpus : SmallCorpora, max : {max_messages_default},
     question : Questions, names : NameLists]

InitPipe ==
    /\ now = 0
    /\ CacheEmpty
    /\ DirectIdle
    /\ FetchIdle
    /\ op = "init"
    /\ \E arg \in PipeInputs :
        /\ inCorpus = arg.corpus
        /\ inMax = arg.max
        /\ inQuestion = arg.question
        /\ inNames = arg.names
    /\ outNames = <<>>
    /\ outList = <<>>
    /\ outContext = <<>>

\* names = extract_user_names(question)
CallExtract ==
    /\ op = "init"
    /\ op' = "extract"
    /\ outNames' = extract_user_names(inQuestion)
    /\ UNCHANGED <<now, cacheVars, fetchVars, directVars,
                   inCorpus, inQuestion, inNames, inMax, outList, outContext>>

\* filtered = filter_messages_by_user(messages, user_names)
CallFilter ==
    /\ op = "init"
    /\ op' = "filter"
    /\ outList' = filter_messages_by_user(inCorpus, inNames)
    /\ UNCHANGED <<now, cacheVars, fetchVars, directVars,
                   inCorpus, inQuestion, inNames, inMax, outNames, outContext>>

\* context = create_context_from_messages(messages, max_messages)
CallBuild ==
    /\ op = "init"
    /\ op' = "build"
    /\ outContext' = create_context_from_messages(inCorpus, inMax)
    /\ UNCHANGED <<now, cacheVars, fetchVars, directVars,
                   inCorpus, inQuestion, inNames, inMax, outNames, outList>>

\* answer_question_with_llm(question, messages) up to the prompt
CallAnswer ==
    /\ op = "init"
    /\ op' = "answer"
    /\ outNames' = extract_user_names(inQuestion)
    /\ outList' = WorkingSet(inQuestion, inCorpus)
    /\ outContext' = create_context_from_messages(WorkingSet(inQuestion, inCorpus),
                                                  max_messages_default)
    /\ UNCHANGED <<now, cacheVars, fetchVars, directVars,
                   inCorpus, inQuestion, inNames, inMax>>

NextPipe ==
    \/ CallExtract
    \/ CallFilter
    \/ CallBuild
    \/ CallAnswer

SpecPipe == InitPipe /\ [][NextPipe]_vars

----------------------------------------------------------------------------
(* Properties of fetch_all_messages and MessageCache *)

Max(a, b) == IF a > b THEN a ELSE b

\* The cache entry is valid as the specification defines it:
\* present and (now - fetchedAt) < TTL, TTL = 300 s
EntryValid == cacheMessages # None /\ cacheLastUpdated # None
              /\ now - cacheLastUpdated[1] < 300

\* C1: on a cache miss the pagination loop issues only a bounded number of page
\* requests whatever the source answers: never more than the total reported by
\* the first page divided by the page size, plus two (the cap the specification
\* asks for).
C1_PageRequestsBounded ==
    \A c \in Calls : Len(reqs[c]) <= (firstTotal[c] \div limit) + 2

\* C2: against a source that serves items[skip : skip + limit] and reports the
\* true total N on every page, a call that missed the cache issues at most
\* max(1, ceil(N / limit)) page requests and returns exactly the N items of the
\* source, in source order, each once.
C2_HonestSourceExact ==
    \A c \in Calls :
        (honest[c] /\ ~hit[c]) =>
            /\ Len(reqs[c]) <= Max(1, (Len(srcCorpus) + limit - 1) \div limit)
            /\ (pc[c] = "done" => result[c] = Some(srcCorpus))

\* A call fetched a corpus of more than one page from a well-behaved source
C2_Witness ==
    \E c \in Calls :
        /\ pc[c] = "done" /\ honest[c] /\ ~hit[c]
        /\ Len(srcCorpus) = limit + 1
        /\ result[c] = Some(srcCorpus)
        /\ reqs[c] = <<0, limit>>

\* C3: MessageCache.get returns the corpus of the most recent set if and only
\* if a set has happened and less than 300 s have passed since that set, and
\* returns absent otherwise.
C3_GetReflectsLastSet ==
    getResult.called =>
        getResult.value =
            IF getResult.seen # None /\ getResult.at - getResult.seen[1].time < 300
            THEN Some(getResult.seen[1].corpus)
            ELSE None

\* After two sets, a get one second before the TTL elapses returned the corpus
\* of the later set
C3_Witness ==
    /\ getResult.called
    /\ setCount = 2
    /\ getResult.seen # None
    /\ getResult.at - getResult.seen[1].time = 299
    /\ getResult.value = Some(<<2, 3>>)

\* C8: when calls race on an absent or expired cache, every call that missed
\* issued its own page requests from skip = 0 and returns the corpus it
\* accumulated itself; once no call is in flight the cache holds exactly the
\* corpus handed to the set that executed last, with the time of that set.
C8_RaceLastWriteWins ==
    /\ \A c \in Calls :
        (pc[c] = "done" /\ ~hit[c]) =>
            /\ result[c] = Some(messages[c])
            /\ Len(reqs[c]) >= 1 /\ reqs[c][1] = 0
    /\ ((\A c \in Calls : ~InFlight(c)) /\ lastSet # None) =>
            /\ cacheMessages = Some(lastSet[1].corpus)
            /\ cacheLastUpdated = Some(lastSet[1].time)

\* Two calls raced, accumulated different corpora, and both have finished
C8_Witness ==
    /\ \A c \in Calls : pc[c] = "done" /\ ~hit[c] /\ raced[c]
    /\ result[1] # result[2]
    /\ lastSet # None
    /\ cacheMessages \in {result[1], result[2]}

\* C9: a failed page request fails the call at once: from the failure on the
\* call can only close its client and raise, it returns no corpus, issues no
\* further request, and its failure leaves the cache entry as it was; the
\* cache changes only when a call that left the loop stores its whole
\* accumulation.
C9_FailFast ==
    [][ /\ \A c \in Calls :
            /\ (pc[c] = "waiting" /\ pc'[c] = "failing") =>
                    /\ result'[c] = None
                    /\ reqs'[c] = reqs[c]
                    /\ cacheMessages' = cacheMessages
                    /\ cacheLastUpdated' = cacheLastUpdated
            /\ pc[c] = "failing" =>
                    /\ pc'[c] \in {"failing", "failed"}
                    /\ result'[c] = None
                    /\ reqs'[c] = reqs[c]
                    /\ pc'[c] = "failed" =>
                            /\ cacheMessages' = cacheMessages
                            /\ cacheLastUpdated' = cacheLastUpdated
            /\ (pc[c] = "failed" /\ pc'[c] = "failed") =>
                    /\ result'[c] = None
                    /\ reqs'[c] = reqs[c]
        /\ (cacheMessages' # cacheMessages \/ cacheLastUpdated' # cacheLastUpdated) =>
                \E d \in Calls :
                    /\ pc[d] = "closing" /\ pc'[d] = "done"
                    /\ cacheMessages' = Some(messages[d])
      ]_vars

\* A call failed on its second page, after it had accumulated the first, and
\* the cache is still empty
C9_Witness ==
    \E c \in Calls :
        /\ pc[c] = "failed"
        /\ Len(reqs[c]) = 2
        /\ result[c] = None
        /\ cacheMessages = None

\* C10: a call made while the cache entry is valid returns the cached corpus
\* and issues no page request; a call made while the entry is absent or expired
\* gets nothing from the cache, requests pages from skip = 0 and returns what
\* it accumulated; page requests are issued only by a call that missed, and the
\* passage of time alone issues none and does not touch the cache.
C10_CacheGatesSource ==
    [][ /\ \A c \in Calls :
            /\ ~InFlight(c) =>
                \/ /\ pc'[c] = pc[c] /\ result'[c] = result[c]
                   /\ reqs'[c] = reqs[c] /\ hit'[c] = hit[c]
                \/ IF EntryValid
                   THEN pc'[c] = "done" /\ result'[c] = cacheMessages /\ reqs'[c] = <<>>
                   ELSE pc'[c] = "waiting" /\ result'[c] = None /\ reqs'[c] = <<0>>
            /\ InFlight(c) =>
                \/ reqs'[c] = reqs[c]
                \/ /\ pc[c] = "waiting" /\ ~hit[c]
                   /\ reqs'[c] = Append(reqs[c], skip'[c])
            /\ (pc[c] = "closing" /\ pc'[c] = "done") => result'[c] = Some(messages[c])
        /\ now' # now =>
                /\ reqs' = reqs
                /\ cacheMessages' = cacheMessages
                /\ cacheLastUpdated' = cacheLastUpdated
      ]_vars

\* One call was served from the valid cache; later the entry expired and the
\* other call, made then, is fetching page 0 from the source
C10_Witness ==
    /\ pc[2] = "done" /\ hit[2] /\ reqs[2] = <<>> /\ result[2] = cacheMessages
    /\ cacheMessages # None
    /\ now - cacheLastUpdated[1] >= 300
    /\ pc[1] = "waiting" /\ reqs[1] = <<0>> /\ result[1] = None

----------------------------------------------------------------------------
(* Properties of the retrieval pipeline *)

\* The lines of a text: text.split("\n")
RECURSIVE SplitRange(_, _, _)
SplitRange(t, lo, hi) ==
    IF lo > hi THEN << <<>> >>
    ELSE IF lo = hi THEN (IF t[lo] = "\n" THEN << <<>>, <<>> >> ELSE << <<t[lo]>> >>)
    ELSE LET mid == (lo + hi) \div 2
             L == SplitRange(t, lo, mid)
             R == SplitRange(t, mid + 1, hi)
         IN SubSeq(L, 1, Len(L) - 1) \o << L[Len(L)] \o R[1] >> \o Tail(R)

TextLines(t) == SplitRange(t, 1, Len(t))

\* A line of the form "[date] text"
IsMessageLine(l) == Len(l) >= 1 /\ l[1] = "["

\* A line of the form "=== userName ==="
IsHeaderLine(l) ==
    /\ Len(l) >= 8
    /\ SubSeq(l, 1, 4) = <<"=", "=", "=", " ">>
    /\ SubSeq(l, Len(l) - 3, Len(l)) = <<" ", "=", "=", "=">>

HeaderUser(l) == SubSeq(l, 5, Len(l) - 4)

MessageLineCount(lines) ==
    Cardinality({i \in 1..Len(lines) : IsMessageLine(lines[i])})

\* The subsequence of s at the positions K, in the order of s
SubseqAt(s, K) ==
    [j \in 1..Cardinality(K) |->
        s[CHOOSE i \in K : Cardinality({k \in K : k <= i}) = j]]

\* The string a, lowercased, occurs somewhere inside the string b, lowercased
OccursIn(a, b) ==
    LET la == lower(a)
        lb == lower(b)
    IN \E off \in 0..(Len(lb) - Len(la)) : \A k \in 1..Len(la) : lb[off + k] = la[k]

\* Some name of the set, lowercased, occurs inside the user name, lowercased
UserNamed(user_name, names) == \E n \in names : OccursIn(n, user_name)

\* The message lines a message block of the context holds: those from the
\* line after the header at position h up to the next header
BlockOf(lines, h) ==
    LET later == {k \in (h + 1)..Len(lines) : IsHeaderLine(lines[k])}
        end == IF later = {} THEN Len(lines)
               ELSE (CHOOSE k \in later : \A m \in later : k <= m) - 1
    IN SubseqAt(lines, {k \in (h + 1)..end : IsMessageLine(lines[k])})

\* The formatted messages of one user in the order of the input
LinesOfUser(msgs, u) ==
    LET own == SubseqAt(msgs, {i \in 1..Len(msgs) : msgs[i].user_name = u}) IN
    [i \in 1..Len(own) |-> FormatLine(own[i])]

\* C4: the context never holds more than maxLines message lines, for every
\* corpus and every maxLines >= 0.
C4_AtMostMaxLines ==
    op = "build" => MessageLineCount(TextLines(outContext)) <= inMax

\* C5: with no names the filter returns its input; otherwise it returns exactly
\* the messages whose user name contains one of the names (case-insensitively),
\* in input order, each once.
C5_FilterExact ==
    op = "filter" =>
        IF inNames = <<>>
        THEN outList = inCorpus
        ELSE outList =
                SubseqAt(inCorpus,
                         {i \in 1..Len(inCorpus) :
                            UserNamed(inCorpus[i].user_name,
                                      {inNames[k] : k \in 1..Len(inNames)})})

\* Two names of the query match the same user; some messages are kept and
\* some are dropped
C5_Witness ==
    /\ op = "filter"
    /\ Len(inNames) = 2
    /\ \E i \in 1..Len(inCorpus) :
          /\ UserNamed(inCorpus[i].user_name, {inNames[1]})
          /\ UserNamed(inCorpus[i].user_name, {inNames[2]})
    /\ 0 < Len(outList) /\ Len(outList) < Len(inCorpus)

\* C6: every message line of the context stands under the header of its user;
\* every header is followed at once by message lines of that user, which are
\* the first lines of that user in input order: at most 50 of them when the
\* input has 200 messages or more, and all of them (below 200) or the first 50
\* (from 200 on) unless the overall maximum cut the output short.
C6_PerUserCap ==
    op = "build" =>
        LET lines == TextLines(outContext)
            heads == {h \in 1..Len(lines) : IsHeaderLine(lines[h])}
            big == Len(inCorpus) >= 200
            cut == MessageLineCount(lines) >= inMax
        IN
        /\ \A i \in 1..Len(lines) :
              IsMessageLine(lines[i]) => \E h \in heads : h < i
        /\ \A h \in heads : \A g \in heads :
              HeaderUser(lines[h]) = HeaderUser(lines[g]) => h = g
        /\ \A h \in heads :
              LET u == HeaderUser(lines[h])
                  block == BlockOf(lines, h)
                  all == LinesOfUser(inCorpus, u)
              IN
              /\ h < Len(lines) /\ IsMessageLine(lines[h + 1])
              /\ Len(block) >= 1 /\ Len(block) <= Len(all)
              /\ block = SubSeq(all, 1, Len(block))
              /\ big => Len(block) <= 50
              /\ ~cut => Len(block) = (IF big THEN Min(50, Len(all)) ELSE Len(all))
        /\ ~cut =>
              \A i \in 1..Len(inCorpus) :
                  \E h \in heads : HeaderUser(lines[h]) = inCorpus[i].user_name

\* A corpus of 200 messages or more in which one user has more than 50 and
\* another has fewer: the first is cut to 50 lines, the second is shown whole
C6_Witness ==
    /\ op = "build"
    /\ Len(inCorpus) >= 200
    /\ inMax = 500
    /\ LET lines == TextLines(outContext) IN
        /\ \E h \in 1..Len(lines) :
              /\ IsHeaderLine(lines[h])
              /\ Len(BlockOf(lines, h)) = 50
              /\ Len(LinesOfUser(inCorpus, HeaderUser(lines[h]))) > 50
        /\ \E h \in 1..Len(lines) :
              /\ IsHeaderLine(lines[h])
              /\ Len(BlockOf(lines, h)) = 49

\* The known names a question mentions
NamesIn(question) ==
    {known_users[k] : k \in {k \in 1..Len(known_users) : OccursIn(known_users[k], question)}}

\* C7: the orchestrator builds the context from the messages of the users
\* named in the question when the question names a known user and some message
\* matches, and then the context holds headers of matching users only, each
\* followed by nothing but that user's own lines; in every other case it
\* builds the context from the whole corpus.
C7_WorkingSet ==
    op = "answer" =>
        LET named == NamesIn(inQuestion)
            matching == {i \in 1..Len(inCorpus) :
                            UserNamed(inCorpus[i].user_name, named)}
            lines == TextLines(outContext)
        IN
        /\ outContext = create_context_from_messages(outList, 500)
        /\ IF named # {} /\ matching # {}
           THEN /\ outList = SubseqAt(inCorpus, matching)
                /\ MessageLineCount(lines) <= Cardinality(matching)
                /\ \A h \in 1..Len(lines) :
                      IsHeaderLine(lines[h]) =>
                          LET u == HeaderUser(lines[h])
                              block == BlockOf(lines, h)
                          IN /\ UserNamed(u, named)
                             /\ Len(block) >= 1
                             /\ Len(block) <= Len(LinesOfUser(inCorpus, u))
                             /\ block = SubSeq(LinesOfUser(inCorpus, u), 1, Len(block))
                /\ \A k \in 1..Len(lines) :
                      IsMessageLine(lines[k]) =>
                          \E h \in 1..(k - 1) : IsHeaderLine(lines[h])
           ELSE outList = inCorpus

\* The question names a known user, the corpus holds messages of that user and
\* of others, and the context was built from that user's messages alone
C7_Witness ==
    /\ op = "answer"
    /\ NamesIn(inQuestion) # {}
    /\ outList # <<>>
    /\ Len(outList) < Len(inCorpus)
    /\ MessageLineCount(TextLines(outContext)) = Len(outList)

====
